---- MODULE Spec2Model ----
(***************************************************************************)
(* Event-choreography core of the microservices demo: the trace context    *)
(* codec, the Kafka producers of order-service and payment-service, their  *)
(* consumer loops and the two event handlers.                              *)
(***************************************************************************)
EXTENDS Integers, Sequences, FiniteSets, Bags, TLC

(***************************************************************************)
(* JavaScript values.  A value is a one-field record whose field name is   *)
(* its type tag, so values of different types are simply unequal.          *)
(***************************************************************************)
Undefined == [undef |-> TRUE]
Null == [null |-> TRUE]
NaN == [nan |-> TRUE]
Str(s) == [str |-> s]
Num(n) == [num |-> n]
Obj(f) == [obj |-> f]
Arr(q) == [arr |-> q]
\* A generated identifier (uuidv4(), a random OpenTelemetry id, a database
\* key): a string that differs from every string generated under another tag.
Fresh(tag) == [gen |-> tag]

IsObj(v) == DOMAIN v = {"obj"}
IsString(v) == DOMAIN v = {"str"} \/ DOMAIN v = {"gen"}
EmptyObject == Obj([k \in {} |-> Undefined])

\* ToBoolean(v)
Truthy(v) ==
  CASE DOMAIN v = {"str"} -> v.str # ""
    [] DOMAIN v = {"num"} -> v.num # 0
    [] DOMAIN v = {"gen"} -> TRUE
    [] DOMAIN v = {"obj"} -> TRUE
    [] DOMAIN v = {"arr"} -> TRUE
    [] OTHER -> FALSE

\* a || b
Or(a, b) == IF Truthy(a) THEN a ELSE b

\* o[k] for a value that is not null or undefined
Get(o, k) == IF IsObj(o) /\ k \in DOMAIN o.obj THEN o.obj[k] ELSE Undefined

\* { ...o, [k]: v }
With(o, k, v) ==
  Obj([x \in DOMAIN o.obj \cup {k} |-> IF x = k THEN v ELSE o.obj[x]])

\* delete o[k]
Delete(o, k) ==
  IF IsObj(o) THEN Obj([x \in DOMAIN o.obj \ {k} |-> o.obj[x]]) ELSE o

Numerals == <<"0", "1", "2", "3", "4", "5", "6", "7", "8", "9">>

\* String(v)
String(v) ==
  CASE DOMAIN v = {"str"} -> v
    [] DOMAIN v = {"gen"} -> v
    [] DOMAIN v = {"num"} ->
         IF v.num \in 0..9 THEN Str(Numerals[v.num + 1]) ELSE Str("number")
    [] DOMAIN v = {"undef"} -> Str("undefined")
    [] DOMAIN v = {"null"} -> Str("null")
    [] DOMAIN v = {"nan"} -> Str("NaN")
    [] OTHER -> Str("[object Object]")

\* parseInt(v, 10) of a string
parseInt(v) ==
  IF DOMAIN v = {"str"} /\ \E n \in 0..9 : Numerals[n + 1] = v.str
  THEN Num(CHOOSE n \in 0..9 : Numerals[n + 1] = v.str)
  ELSE NaN

(***************************************************************************)
(* JSON text.  The text of a value is a tree of tokens: a quoted string, a *)
(* numeral, the literal null, or the members of an object.  A text that is *)
(* not JSON is Garbage.                                                    *)
(***************************************************************************)
Garbage == [garbage |-> TRUE]
Threw == [threw |-> TRUE]

RECURSIVE JSONstringify(_)
JSONstringify(v) ==
  CASE DOMAIN v = {"str"} -> [quoted |-> v.str]
    [] DOMAIN v = {"gen"} -> [quotedGen |-> v.gen]
    [] DOMAIN v = {"num"} -> [numeral |-> v.num]
    [] DOMAIN v = {"obj"} ->
         [members |-> [k \in {x \in DOMAIN v.obj : v.obj[x] # Undefined} |->
                          JSONstringify(v.obj[k])]]
    [] DOMAIN v = {"arr"} ->
         [elements |-> [i \in DOMAIN v.arr |-> JSONstringify(v.arr[i])]]
    [] OTHER -> [literal |-> "null"]

RECURSIVE JSONparse(_)
JSONparse(t) ==
  CASE DOMAIN t = {"quoted"} -> Str(t.quoted)
    [] DOMAIN t = {"quotedGen"} -> Fresh(t.quotedGen)
    [] DOMAIN t = {"numeral"} -> Num(t.numeral)
    [] DOMAIN t = {"members"} ->
         Obj([k \in DOMAIN t.members |-> JSONparse(t.members[k])])
    [] DOMAIN t = {"elements"} ->
         Arr([i \in DOMAIN t.elements |-> JSONparse(t.elements[i])])
    [] DOMAIN t = {"literal"} -> Null
    [] OTHER -> Threw

(***************************************************************************)
(* Trace context codec: TracingService and the `_trace` envelope.          *)
(***************************************************************************)
TraceIds == {"deadbeefdeadbeefdeadbeefdeadbeef", "0af7651916cd43dd8448eb211c80319c"}
SpanIds == {"b7ad6b7169203331", "00f067aa0ba902b7"}

\* A span context: traceId, spanId, traceFlags.
SpanContext(t, s, f) == [traceId |-> t, spanId |-> s, traceFlags |-> f]
NoContext == [none |-> TRUE]

\* OpenTelemetry isSpanContextValid: a 32-hex trace id and a 16-hex span id.
\* The ids the tracer generates itself are tagged "otel-trace" / "otel-span".
isValidTraceId(v) ==
  \/ DOMAIN v = {"str"} /\ v.str \in TraceIds
  \/ DOMAIN v = {"gen"} /\ v.gen[3] = "otel-trace"
isValidSpanId(v) ==
  \/ DOMAIN v = {"str"} /\ v.str \in SpanIds
  \/ DOMAIN v = {"gen"} /\ v.gen[3] = "otel-span"
isSpanContextValid(c) ==
  c # NoContext /\ isValidTraceId(c.traceId) /\ isValidSpanId(c.spanId)

\* traceFlags & 1
Sampled(f) == DOMAIN f = {"num"} /\ f.num % 2 = 1

\* A tracer whose child span keeps the span id of its parent
tracerStartSpanSameId(parent, who, n) ==
  IF isSpanContextValid(parent)
  THEN [traceId |-> parent.traceId,
        spanId |-> parent.spanId,
        traceFlags |-> Num(IF Sampled(parent.traceFlags) THEN 1 ELSE 0),
        parentSpanId |-> parent.spanId]
  ELSE [traceId |-> Fresh(<<who, n, "otel-trace">>),
        spanId |-> Fresh(<<who, n, "otel-span">>),
        traceFlags |-> Num(1),
        parentSpanId |-> Undefined]

\* tracer.startSpan(name, options, parentContext): a child of a valid parent
\* span context stays in the parent's trace and keeps its sampling decision,
\* anything else starts a new sampled root.  who, n tag the generated ids.
tracerStartSpan(parent, who, n) ==
  IF isSpanContextValid(parent)
  THEN [traceId |-> parent.traceId,
        spanId |-> Fresh(<<who, n, "otel-span">>),
        traceFlags |-> Num(IF Sampled(parent.traceFlags) THEN 1 ELSE 0),
        parentSpanId |-> parent.spanId]
  ELSE [traceId |-> Fresh(<<who, n, "otel-trace">>),
        spanId |-> Fresh(<<who, n, "otel-span">>),
        traceFlags |-> Num(1),
        parentSpanId |-> Undefined]

spanContext(span) == SpanContext(span.traceId, span.spanId, span.traceFlags)

\* TracingService.injectContextFromSpan(span, headers)
injectContextFromSpan(span, headers) ==
  With(With(With(headers,
    "x-trace-id", span.traceId),
    "x-span-id", span.spanId),
    "x-trace-flags", String(Or(span.traceFlags, Num(1))))

\* ConfluentKafkaService.emit (order-service): messageWithTrace
messageWithTrace(data, traceHeaders) ==
  With(data, "_trace",
       Obj([traceId |-> Get(traceHeaders, "x-trace-id"),
            spanId |-> Get(traceHeaders, "x-span-id"),
            flags |-> Get(traceHeaders, "x-trace-flags")]))

\* consumeMessages, the body of the per-message try block up to the dispatch:
\* parse, lift `_trace` into headers, strip it.  [threw] when JSON.parse
\* throws or the parsed value is null (reading `_trace` of null throws).
extractTrace(text) ==
  LET messagePayload == JSONparse(text)
      tr == Get(messagePayload, "_trace")
  IN IF messagePayload = Threw \/ messagePayload = Null
     THEN Threw
     ELSE IF Truthy(tr)
          THEN [headers |->
                  Obj([k \in {"x-trace-id", "x-span-id", "x-trace-flags"} |->
                        CASE k = "x-trace-id" -> Get(tr, "traceId")
                          [] k = "x-span-id" -> Get(tr, "spanId")
                          [] OTHER -> String(Or(Get(tr, "flags"), Str("1")))]),
                eventData |-> Delete(messagePayload, "_trace")]
          ELSE [headers |-> EmptyObject, eventData |-> messagePayload]

\* TracingService.startSpanFromHeaders: the parent span context it builds
\* from the headers, NoContext on the fallback branch.
parentSpanContext(headers) ==
  LET parentTraceId == Get(headers, "x-trace-id")
      parentSpanId == Get(headers, "x-span-id")
  IN IF Truthy(parentTraceId) /\ Truthy(parentSpanId)
     THEN SpanContext(parentTraceId, parentSpanId,
                      parseInt(Or(Get(headers, "x-trace-flags"), Str("1"))))
     ELSE NoContext

\* TracingService.startSpanFromHeaders(name, headers)
startSpanFromHeaders(headers, who, n) ==
  tracerStartSpan(parentSpanContext(headers), who, n)

(***************************************************************************)
(* The services, their topics and the bounds of the model.                 *)
(***************************************************************************)
Svc == {"order", "payment"}
\* The services that have a producer: user-service publishes user.created
\* and consumes nothing
Producers == Svc \cup {"user"}
Topics == {"user.created", "order.created", "payment.completed"}
\* A consumer that subscribes to the topic its own service publishes
InTopicOwn(s) == IF s = "order" THEN "order.created" ELSE "payment.completed"

\* consumer.subscribe([...])
InTopic(s) == IF s = "order" THEN "user.created" ELSE "order.created"

MaxMsgs == 2       \* messages on the topic a service consumes
MaxCalls == 2      \* direct emit() calls of the producer specification
BatchSize == 10    \* consume(10, callback)

\* Math.random() in thousandths, and the threshold 0.1
Draws == {100, 101}
FailureThreshold == 100

VARIABLES
  brokerUp,      \* the broker is reachable
  orders,        \* the rows of the orders table, in the order they were saved
  users,         \* the rows of the users table, in the order they were saved
  topics,        \* [Topics -> Seq(message)]: the log of each topic
  committed,     \* [Svc -> Nat]: committed position of the service's group
  hooks,         \* onModuleInit hooks that have not run yet
  producer,      \* [Producers -> state]: the Producer held in this.producer:
                 \*   "null", "connecting", "ready" or "failed"
  pIsConnected,  \* [Producers -> BOOLEAN]: ConfluentKafkaService.isConnected
  pAwait,        \* [Producers -> -1 or a caller]: the connect() in flight whose
                 \*   Producer is the one in this.producer, -1 for none
  pOrphans,      \* [Producers -> bag of callers]: the connect() calls in flight
                 \*   whose Producer was replaced in this.producer
  pTimers,       \* [Producers -> Nat]: pending setTimeout(() => this.connect())
  consumer,      \* [Svc -> state]: the KafkaConsumer held in this.consumer:
                 \*   as the producer, or "closed" (disconnected), "aborting"
                 \*   (disconnected while its connect was in flight)
  cIsConnected,  \* [Svc -> BOOLEAN]: ConfluentKafkaConsumerService.isConnected
  cTimers,       \* [Svc -> Nat]: pending setTimeout(connectAndSubscribe)
  subscribed,    \* [Svc -> SUBSET Topics]: topics this.consumer subscribed to
  stopped,       \* [Svc -> BOOLEAN]: the consumer's onModuleDestroy has run
  fetchPos,      \* [Svc -> Nat]: messages the subscribed client has delivered
  pulls,         \* [Svc -> Nat]: consume() requests awaiting their callback
  immediates,    \* [Svc -> Nat]: pending setImmediate(consumeLoop)
  pullTimers,    \* [Svc -> Nat]: pending setTimeout(consumeLoop, 1000)
  tasks,         \* [Producers -> Seq(task)]: handler invocations and emit() calls
  calls,         \* direct emit() calls made so far
  codec          \* the codec specification's input, wire text and result

envVars == <<brokerUp, orders, users>>
prodVars == <<producer, pIsConnected, pAwait, pOrphans, pTimers>>
connVars == <<consumer, cIsConnected, cTimers, subscribed, stopped>>
loopVars == <<fetchPos, pulls, immediates, pullTimers>>
vars == <<brokerUp, orders, users, topics, committed, hooks, producer, pIsConnected,
          pAwait, pOrphans, pTimers, consumer, cIsConnected, cTimers, subscribed,
          stopped, fetchPos, pulls, immediates, pullTimers, tasks, calls, codec>>

(***************************************************************************)
(* OrdersService and PaymentsService: what a handler computes before it    *)
(* suspends, and the event it emits afterwards.  n tags generated ids.     *)
(***************************************************************************)
Timestamp == Str("2024-01-01T00:00:00.000Z")

WelcomeItems ==
  Arr(<<Obj([productId |-> Str("welcome-product"), quantity |-> Num(1),
             price |-> Num(0)])>>)

\* items.reduce((sum, item) => sum + item.price * item.quantity, 0)
RECURSIVE sumItems(_)
sumItems(q) ==
  IF q = <<>> THEN 0
  ELSE Get(Head(q), "price").num * Get(Head(q), "quantity").num + sumItems(Tail(q))

\* OrdersService.create up to the await of ordersRepository.save
create(createOrderDto, requestId, n) ==
  [ctx |-> Obj([requestId |-> Or(requestId, Fresh(<<"order", n, "requestId">>)),
                traceId |-> Fresh(<<"order", n, "traceId">>),
                spanId |-> Fresh(<<"order", n, "spanId">>)]),
   order |-> Obj([userId |-> Get(createOrderDto, "userId"),
                  items |-> Get(createOrderDto, "items"),
                  totalAmount |-> Num(sumItems(Get(createOrderDto, "items").arr))])]

\* A welcome order without its item
createOrderForUserEmpty(userId, headers, n) ==
  LET reqId == Or(Get(headers, "requestId"), Fresh(<<"order", n, "requestId-auto">>))
      welcomeOrder == Obj([userId |-> userId, items |-> Arr(<<>>)])
  IN create(welcomeOrder, reqId, n)

\* OrdersService.createOrderForUser
createOrderForUser(userId, headers, n) ==
  LET reqId == Or(Get(headers, "requestId"), Fresh(<<"order", n, "requestId-auto">>))
      welcomeOrder == Obj([userId |-> userId, items |-> WelcomeItems])
  IN create(welcomeOrder, reqId, n)

\* ordersRepository.save: the stored row gets its key and creation time
save(order, n) ==
  With(With(order, "id", Fresh(<<"order", n, "orderId">>)), "createdAt", Timestamp)

\* OrdersService.create: the order.created event of a saved order
orderCreatedEvent(savedOrder) ==
  Obj([orderId |-> Get(savedOrder, "id"),
       userId |-> Get(savedOrder, "userId"),
       items |-> Get(savedOrder, "items"),
       totalAmount |-> Get(savedOrder, "totalAmount"),
       createdAt |-> Get(savedOrder, "createdAt")])

\* UsersService.create up to the await of usersRepository.save (bcrypt.hash
\* yields a digest that is not the password)
createUser(createUserDto, requestId, n) ==
  [ctx |-> Obj([requestId |-> Or(requestId, Fresh(<<"user", n, "requestId">>)),
                traceId |-> Fresh(<<"user", n, "traceId">>),
                spanId |-> Fresh(<<"user", n, "spanId">>)]),
   user |-> With(With(createUserDto, "password", Fresh(<<"user", n, "hashedPassword">>)),
                 "role", Or(Get(createUserDto, "role"), Str("user")))]

\* usersRepository.save: the stored row gets its key and creation time
saveUser(user, n) ==
  With(With(user, "id", Fresh(<<"user", n, "userId">>)), "createdAt", Timestamp)

\* UsersService.create: the user.created event of a saved user
userCreatedEvent(savedUser) ==
  Obj([userId |-> Get(savedUser, "id"),
       email |-> Get(savedUser, "email"),
       name |-> Get(savedUser, "name"),
       createdAt |-> Get(savedUser, "createdAt")])

\* PaymentsService.processPayment up to the await of the delay
processPayment(orderId, userId, amount, headers, n) ==
  [ctx |-> Obj([requestId |-> Or(Get(headers, "requestId"),
                                 Fresh(<<"payment", n, "requestId">>)),
                traceId |-> Or(Get(headers, "traceId"),
                               Fresh(<<"payment", n, "traceId">>)),
                spanId |-> Fresh(<<"payment", n, "spanId">>)]),
   payment |-> Obj([orderId |-> orderId, userId |-> userId, amount |-> amount])]

\* A classification that counts the boundary draw as a success
paymentStatusInclusive(r) == IF r >= FailureThreshold THEN "completed" ELSE "failed"

\* Math.random() > 0.1 ? 'completed' : 'failed'
paymentStatus(r) == IF r > FailureThreshold THEN "completed" ELSE "failed"

\* PaymentsService.processPayment: the payment.completed event
paymentCompletedEvent(payment, r, n) ==
  Obj([paymentId |-> Fresh(<<"payment", n, "paymentId">>),
       orderId |-> Get(payment, "orderId"),
       userId |-> Get(payment, "userId"),
       amount |-> Get(payment, "amount"),
       status |-> Str(paymentStatus(r)),
       completedAt |-> Timestamp])

(***************************************************************************)
(* ConfluentKafkaService.emit: the message handed to producer.produce.     *)
(***************************************************************************)
\* An emit that spreads the headers into the body as well
orderEmitMessageSpread(data, headers, active, n) ==
  LET span == tracerStartSpan(active, "order.emit", n)
      traceHeaders == injectContextFromSpan(span, Or(headers, EmptyObject))
  IN [value |-> JSONstringify(messageWithTrace(
                  Obj([k \in DOMAIN data.obj \cup DOMAIN traceHeaders.obj |->
                         IF k \in DOMAIN data.obj THEN data.obj[k]
                         ELSE traceHeaders.obj[k]]), traceHeaders)),
      headers |-> Undefined]

\* order-service: a producer span under the active context, its context
\* embedded in the body as `_trace`, no Kafka headers
orderEmitMessage(data, headers, active, n) ==
  LET span == tracerStartSpan(active, "order.emit", n)
      traceHeaders == injectContextFromSpan(span, Or(headers, EmptyObject))
  IN [value |-> JSONstringify(messageWithTrace(data, traceHeaders)),
      headers |-> Undefined]

\* payment-service: the body is the payload, the context goes into Kafka
\* headers
paymentEmitMessage(data, headers) ==
  [value |-> JSONstringify(data),
   headers |-> IF Truthy(headers) /\ DOMAIN headers.obj # {}
               THEN Obj([k \in DOMAIN headers.obj |-> String(headers.obj[k])])
               ELSE Undefined]

\* The producer of user-service, as the spec describes emit: the payload
\* merged with the encoded trace context
userEmitMessage(data, headers, active, n) == orderEmitMessage(data, headers, active, n)

emitMessage(s, data, headers, active, n) ==
  CASE s = "order" -> orderEmitMessage(data, headers, active, n)
    [] s = "payment" -> paymentEmitMessage(data, headers)
    [] s = "user" -> userEmitMessage(data, headers, active, n)

(***************************************************************************)
(* Tasks: one per handler invocation (origin "consumer") or direct emit()  *)
(* call (origin "caller").  pc is where the invocation is suspended:       *)
(* "save", "delay", "connect"; or how it ended: "done", "failed" (the      *)
(* error was caught and logged by the handler), "rejected" (emit threw to  *)
(* its caller), "unhandled".  result is what the service method returns    *)
(* when its emit resolves.  batch is history, read by the properties only: *)
(* the offset of the first message of the batch that delivered the         *)
(* message, where the specification records it, else 0.                    *)
(***************************************************************************)
Task(origin, off, pc, span, event, data, ctx, topic) ==
  [origin |-> origin, off |-> off, pc |-> pc, span |-> span, event |-> event,
   data |-> data, ctx |-> ctx, topic |-> topic, draw |-> 0,
   error |-> "", result |-> Undefined, batch |-> 0]

\* ConfluentKafkaConsumerService.handleUserCreated (order-service)
handleUserCreated(off, event, headers) ==
  LET span == startSpanFromHeaders(headers, "order", off)
      c == createOrderForUser(Get(event, "userId"), headers, off)
  IN Task("consumer", off, "save", spanContext(span), event, c.order, c.ctx,
          "order.created")

\* ConfluentKafkaConsumerService.handleOrderCreated (payment-service)
handleOrderCreated(off, event, headers) ==
  LET span == startSpanFromHeaders(headers, "payment", off)
      p == processPayment(Get(event, "orderId"), Get(event, "userId"),
                          Get(event, "totalAmount"), headers, off)
  IN Task("consumer", off, "delay", spanContext(span), event, p.payment, p.ctx,
          "payment.completed")

dispatch(s, off, event, headers) ==
  IF s = "order" THEN handleUserCreated(off, event, headers)
  ELSE handleOrderCreated(off, event, headers)

\* A handler without its try/catch and without the .catch of the loop
settleNowhere(origin) == "unhandled"

\* Where an error of the awaited call ends: the try/catch of the handler
\* logs it; a direct caller of emit gets it.
settle(origin) == IF origin = "consumer" THEN "failed" ELSE "rejected"

RECURSIVE consumeBatch(_, _, _)

\* A loop that dispatches the messages of a batch last to first
consumeBatchReversed(s, messages, base) ==
  IF messages = <<>> THEN <<>>
  ELSE LET x == extractTrace(Head(messages).value)
           rest == consumeBatch(s, Tail(messages), base + 1)
       IN IF x = Threw THEN rest
          ELSE rest \o <<dispatch(s, base + 1, x.eventData, x.headers)>>

\* A loop that handles the first message of a batch only
consumeBatchFirstOnly(s, messages, base) ==
  IF messages = <<>> \/ extractTrace(Head(messages).value) = Threw THEN <<>>
  ELSE LET x == extractTrace(Head(messages).value)
       IN <<dispatch(s, base + 1, x.eventData, x.headers)>>

\* A loop whose try block encloses the for loop: a parse error ends the batch
consumeBatchUntilError(s, messages, base) ==
  IF messages = <<>> THEN <<>>
  ELSE LET x == extractTrace(Head(messages).value)
       IN IF x = Threw THEN <<>>
          ELSE <<dispatch(s, base + 1, x.eventData, x.headers)>>
                 \o consumeBatch(s, Tail(messages), base + 1)

\* consumeMessages: the for loop over one batch, whose first message has
\* offset base + 1.  The tasks it dispatches, in order.
consumeBatch(s, messages, base) ==
  IF messages = <<>> THEN <<>>
  ELSE LET x == extractTrace(Head(messages).value)
           rest == consumeBatch(s, Tail(messages), base + 1)
       IN IF x = Threw THEN rest
          ELSE <<dispatch(s, base + 1, x.eventData, x.headers)>> \o rest

\* consumeMessages: the position after the commitMessage calls of the batch
RECURSIVE commitBatch(_, _, _)

\* A loop that leaves the commit to the completion of the handler
commitBatchDeferred(messages, base, c) == c

commitBatch(messages, base, c) ==
  IF messages = <<>> THEN c
  ELSE commitBatch(Tail(messages), base + 1,
                   IF extractTrace(Head(messages).value) = Threw THEN c
                   ELSE base + 1)

(***************************************************************************)
(* Messages the environment has published.                                 *)
(***************************************************************************)
Message(value, headers, by, off) ==
  [value |-> value, headers |-> headers, cause |-> <<by, off>>]

TraceOf(t, sp, f) == Obj([traceId |-> t, spanId |-> sp, flags |-> f])

UserCreated(u) ==
  Obj([userId |-> Str(u), email |-> Str("a@b.com"), name |-> Str("A"),
       createdAt |-> Timestamp])

OrderCreated(o, u, amount) ==
  Obj([orderId |-> Str(o), userId |-> Str(u), items |-> WelcomeItems,
       totalAmount |-> Num(amount), createdAt |-> Timestamp])

UserCreatedTraced ==
  Message(JSONstringify(With(UserCreated("u1"), "_trace",
            TraceOf(Str("deadbeefdeadbeefdeadbeefdeadbeef"),
                    Str("b7ad6b7169203331"), Str("1")))), Undefined, "env", 0)

\* The order.created message order-service emits for UserCreatedTraced
OrderCreatedChained ==
  LET x == extractTrace(UserCreatedTraced.value)
      t == handleUserCreated(1, x.eventData, x.headers)
  IN emitMessage("order", orderCreatedEvent(save(t.data, 1)), t.ctx, t.span, 1)
       @@ [cause |-> <<"order", 1>>]

Unparseable == Message(Garbage, Undefined, "env", 0)

\* What may be on the topic a service consumes
EnvMsgs(s) ==
  IF s = "order" THEN {UserCreatedTraced, Unparseable}
  ELSE {OrderCreatedChained, Unparseable}

BoundedSeq(S, n) == UNION {[1..k -> S] : k \in 0..n}

Min(a, b) == IF a < b THEN a ELSE b

(***************************************************************************)
(* Initial state: the services are constructed, no hook has run.           *)
(***************************************************************************)
Constructed ==
  /\ committed = [s \in Svc |-> 0]
  /\ producer = [s \in Producers |-> "null"]
  /\ pIsConnected = [s \in Producers |-> FALSE]
  /\ pAwait = [s \in Producers |-> -1]
  /\ pOrphans = [s \in Producers |-> EmptyBag]
  /\ pTimers = [s \in Producers |-> 0]
  /\ consumer = [s \in Svc |-> "null"]
  /\ cIsConnected = [s \in Svc |-> FALSE]
  /\ cTimers = [s \in Svc |-> 0]
  /\ subscribed = [s \in Svc |-> {}]
  /\ stopped = [s \in Svc |-> FALSE]
  /\ orders = <<>>
  /\ users = <<>>
  /\ fetchPos = [s \in Svc |-> 0]
  /\ pulls = [s \in Svc |-> 0]
  /\ immediates = [s \in Svc |-> 0]
  /\ pullTimers = [s \in Svc |-> 0]
  /\ tasks = [s \in Producers |-> <<>>]
  /\ calls = 0

\* One service runs; the topic it consumes holds up to MaxMsgs messages.
Init ==
  /\ Constructed
  /\ brokerUp \in BOOLEAN
  /\ \E s \in Svc :
       /\ hooks = {s} \X {"producer", "consumer"}
       /\ topics \in {[t \in Topics |-> IF t = InTopic(s) THEN q ELSE <<>>] :
                        q \in BoundedSeq(EnvMsgs(s), MaxMsgs)}
  /\ codec = [pc |-> "off"]

(***************************************************************************)
(* The broker.                                                             *)
(***************************************************************************)
BrokerDown ==
  /\ brokerUp
  /\ brokerUp' = FALSE
  /\ UNCHANGED <<orders, users, topics, committed, hooks, prodVars, connVars,
                 loopVars, tasks, calls, codec>>

BrokerBack ==
  /\ ~brokerUp
  /\ brokerUp' = TRUE
  /\ UNCHANGED <<orders, users, topics, committed, hooks, prodVars, connVars,
                 loopVars, tasks, calls, codec>>

(***************************************************************************)
(* ConfluentKafkaService: connect, its retry timer, emit.                  *)
(***************************************************************************)
\* connect() up to its await: returns at once when connected, else replaces
\* this.producer by a new Producer and waits for its connect callback.  by
\* is the task whose emit awaits this connect(), 0 for the hook or a timer.
connect(s, by) ==
  IF pIsConnected[s] /\ producer[s] # "null"
  THEN UNCHANGED <<producer, pAwait, pOrphans>>
  ELSE /\ producer' = [producer EXCEPT ![s] = "connecting"]
       /\ pAwait' = [pAwait EXCEPT ![s] = by]
       /\ pOrphans' = [pOrphans EXCEPT ![s] =
                         IF pAwait[s] = -1 THEN @ ELSE @ (+) SetToBag({pAwait[s]})]

\* ConfluentKafkaService.onModuleInit
ProducerInit(s) ==
  /\ <<s, "producer">> \in hooks
  /\ hooks' = hooks \ {<<s, "producer">>}
  /\ connect(s, 0)
  /\ UNCHANGED <<envVars, topics, committed, pIsConnected, pTimers, connVars,
                 loopVars, tasks, calls, codec>>

\* setTimeout(() => this.connect(), 5000) fires
ProducerRetry(s) ==
  /\ pTimers[s] > 0
  /\ pTimers' = [pTimers EXCEPT ![s] = @ - 1]
  /\ connect(s, 0)
  /\ UNCHANGED <<envVars, topics, committed, hooks, pIsConnected, connVars,
                 loopVars, tasks, calls, codec>>

setTask(q, i, t) == IF i <= Len(q) THEN [q EXCEPT ![i] = t] ELSE Append(q, t)

\* The tag of the ids a task generates
Who(s, t) == IF t.origin = "consumer" THEN s ELSE "caller"

\* emit() from producer.produce on: produce throws unless the Producer held
\* in this.producer (in state held) is connected; else the message is on
\* the topic.
produce(s, i, t, held) ==
  IF held = "ready"
  THEN /\ topics' = [topics EXCEPT ![t.topic] =
                       Append(@, emitMessage(s, t.data, t.ctx, t.span, t.off)
                                   @@ [cause |-> <<Who(s, t), t.off>>])]
       /\ tasks' = [tasks EXCEPT ![s] = setTask(@, i, [t EXCEPT !.pc = "done"])]
  ELSE /\ tasks' = [tasks EXCEPT ![s] = setTask(@, i,
                      [t EXCEPT !.pc = settle(t.origin),
                                !.error = "Producer not connected"])]
       /\ UNCHANGED topics

\* emit(topic, data, headers) of task t up to its first suspension
emit(s, i, t) ==
  IF producer[s] # "null" /\ pIsConnected[s]
  THEN /\ produce(s, i, t, producer[s])
       /\ UNCHANGED <<producer, pAwait, pOrphans>>
  ELSE /\ connect(s, i)
       /\ tasks' = [tasks EXCEPT ![s] = setTask(@, i, [t EXCEPT !.pc = "connect"])]
       /\ UNCHANGED topics

\* An emit that does not test the flag after its connect() and whose
\* client queues the message while it is not connected
afterConnectUnchecked(s, by, ok, held) ==
  /\ pIsConnected' = [pIsConnected EXCEPT ![s] = ok]
  /\ pTimers' = [pTimers EXCEPT ![s] = IF ok THEN @ ELSE @ + 1]
  /\ IF by = 0
     THEN UNCHANGED <<tasks, topics>>
     ELSE produce(s, by, tasks[s][by], "ready")

\* The rest of connect() after the connect callback (ok: without error),
\* then the rest of the emit() of task by that awaited it.  held is the
\* state of the Producer in this.producer after the callback.
afterConnect(s, by, ok, held) ==
  /\ pIsConnected' = [pIsConnected EXCEPT ![s] = ok]
  /\ pTimers' = [pTimers EXCEPT ![s] = IF ok THEN @ ELSE @ + 1]
  /\ IF by = 0
     THEN UNCHANGED <<tasks, topics>>
     ELSE IF ok
          THEN produce(s, by, tasks[s][by], held)
          ELSE /\ tasks' = [tasks EXCEPT ![s][by] =
                              [@ EXCEPT !.pc = settle(tasks[s][by].origin),
                                        !.error = "Kafka producer not available"]]
               /\ UNCHANGED topics

\* The connect callback of the Producer held in this.producer
ProducerConnected(s) ==
  /\ pAwait[s] # -1
  /\ LET held == IF brokerUp THEN "ready" ELSE "failed"
     IN /\ producer' = [producer EXCEPT ![s] = held]
        /\ afterConnect(s, pAwait[s], brokerUp, held)
  /\ pAwait' = [pAwait EXCEPT ![s] = -1]
  /\ UNCHANGED <<envVars, committed, hooks, pOrphans, connVars, loopVars, calls,
                 codec>>

\* The connect callback of a Producer that this.producer no longer holds
OrphanConnected(s, by) ==
  /\ BagIn(by, pOrphans[s])
  /\ pOrphans' = [pOrphans EXCEPT ![s] = @ (-) SetToBag({by})]
  /\ afterConnect(s, by, brokerUp, producer[s])
  /\ UNCHANGED <<envVars, committed, hooks, producer, pAwait, connVars, loopVars,
                 calls, codec>>

(***************************************************************************)
(* ConfluentKafkaConsumerService: connectAndSubscribe and the pull loop.   *)
(***************************************************************************)
\* connectAndSubscribe() up to its await
connectAndSubscribe(s) ==
  IF cIsConnected[s] /\ consumer[s] # "null"
  THEN UNCHANGED <<consumer, subscribed>>
  ELSE /\ consumer' = [consumer EXCEPT ![s] = "connecting"]
       /\ subscribed' = [subscribed EXCEPT ![s] = {}]

\* ConfluentKafkaConsumerService.onModuleInit
ConsumerInit(s) ==
  /\ <<s, "consumer">> \in hooks
  /\ hooks' = hooks \ {<<s, "consumer">>}
  /\ connectAndSubscribe(s)
  /\ UNCHANGED <<envVars, topics, committed, prodVars, cIsConnected, cTimers,
                 stopped, loopVars, tasks, calls, codec>>

\* setTimeout(() => this.connectAndSubscribe(), 5000) fires
ConsumerRetry(s) ==
  /\ cTimers[s] > 0
  /\ cTimers' = [cTimers EXCEPT ![s] = @ - 1]
  /\ connectAndSubscribe(s)
  /\ UNCHANGED <<envVars, topics, committed, hooks, prodVars, cIsConnected,
                 stopped, loopVars, tasks, calls, codec>>

\* consumeLoop(): one more consume(10, callback) unless stopped
consumeLoop(s, connected) ==
  IF connected /\ consumer[s] # "null" THEN pulls[s] + 1 ELSE pulls[s]

\* A connectAndSubscribe that gives up after a failed connect
ConsumerConnectedOnce(s) ==
  /\ consumer[s] \in {"connecting", "aborting"}
  /\ IF brokerUp /\ consumer[s] = "connecting"
     THEN /\ consumer' = [consumer EXCEPT ![s] = "ready"]
          /\ subscribed' = [subscribed EXCEPT ![s] = {InTopic(s)}]
          /\ fetchPos' = [fetchPos EXCEPT ![s] = committed[s]]
          /\ cIsConnected' = [cIsConnected EXCEPT ![s] = TRUE]
          /\ pulls' = [pulls EXCEPT ![s] = consumeLoop(s, TRUE)]
     ELSE /\ consumer' = [consumer EXCEPT ![s] = "failed"]
          /\ cIsConnected' = [cIsConnected EXCEPT ![s] = FALSE]
          /\ UNCHANGED <<fetchPos, pulls, subscribed>>
  /\ UNCHANGED <<envVars, topics, committed, hooks, prodVars, cTimers, stopped,
                 immediates, pullTimers, tasks, calls, codec>>

\* A consumer that starts at the beginning of the topic whatever its group
\* has committed
ConsumerConnectedFromStart(s) ==
  /\ consumer[s] \in {"connecting", "aborting"}
  /\ IF brokerUp /\ consumer[s] = "connecting"
     THEN /\ consumer' = [consumer EXCEPT ![s] = "ready"]
          /\ subscribed' = [subscribed EXCEPT ![s] = {InTopic(s)}]
          /\ fetchPos' = [fetchPos EXCEPT ![s] = 0]
          /\ cIsConnected' = [cIsConnected EXCEPT ![s] = TRUE]
          /\ pulls' = [pulls EXCEPT ![s] = consumeLoop(s, TRUE)]
          /\ UNCHANGED cTimers
     ELSE /\ consumer' = [consumer EXCEPT ![s] = "failed"]
          /\ cIsConnected' = [cIsConnected EXCEPT ![s] = FALSE]
          /\ cTimers' = [cTimers EXCEPT ![s] = @ + 1]
          /\ UNCHANGED <<fetchPos, pulls, subscribed>>
  /\ UNCHANGED <<envVars, topics, committed, hooks, prodVars, stopped,
                 immediates, pullTimers, tasks, calls, codec>>

\* The connect callback and the rest of connectAndSubscribe: subscribe, set
\* the flag, start the loop; or clear the flag and retry.
ConsumerConnected(s) ==
  /\ consumer[s] \in {"connecting", "aborting"}
  /\ IF brokerUp /\ consumer[s] = "connecting"
     THEN /\ consumer' = [consumer EXCEPT ![s] = "ready"]
          /\ subscribed' = [subscribed EXCEPT ![s] = {InTopic(s)}]
          /\ fetchPos' = [fetchPos EXCEPT ![s] = committed[s]]
          /\ cIsConnected' = [cIsConnected EXCEPT ![s] = TRUE]
          /\ pulls' = [pulls EXCEPT ![s] = consumeLoop(s, TRUE)]
          /\ UNCHANGED cTimers
     ELSE /\ consumer' = [consumer EXCEPT ![s] = "failed"]
          /\ cIsConnected' = [cIsConnected EXCEPT ![s] = FALSE]
          /\ cTimers' = [cTimers EXCEPT ![s] = @ + 1]
          /\ UNCHANGED <<fetchPos, pulls, subscribed>>
  /\ UNCHANGED <<envVars, topics, committed, hooks, prodVars, stopped,
                 immediates, pullTimers, tasks, calls, codec>>

\* The consume callback with an error: retry the pull after a delay
ConsumeError(s) ==
  /\ pulls[s] > 0
  /\ ~brokerUp \/ consumer[s] = "closed"
  /\ pulls' = [pulls EXCEPT ![s] = @ - 1]
  /\ pullTimers' = [pullTimers EXCEPT ![s] = IF cIsConnected[s] THEN @ + 1 ELSE @]
  /\ UNCHANGED <<envVars, topics, committed, hooks, prodVars, connVars, fetchPos,
                 immediates, tasks, calls, codec>>

\* The consume callback with a batch of b messages: parse, dispatch and
\* commit each, then schedule the next pull.  With history, each handler
\* invocation records the offset of the first message of its batch.
Deliver(s, b, history) ==
  /\ pulls[s] > 0
  /\ b \in 0..Min(BatchSize, Len(topics[InTopic(s)]) - fetchPos[s])
  /\ b > 0 => brokerUp /\ consumer[s] = "ready"
  /\ LET messages == SubSeq(topics[InTopic(s)], fetchPos[s] + 1, fetchPos[s] + b)
         dispatched == consumeBatch(s, messages, fetchPos[s])
     IN /\ tasks' = [tasks EXCEPT ![s] =
                       @ \o [k \in DOMAIN dispatched |->
                               [dispatched[k] EXCEPT !.batch =
                                  IF history THEN fetchPos[s] + 1 ELSE 0]]]
        /\ committed' = [committed EXCEPT ![s] = commitBatch(messages, fetchPos[s], @)]
  /\ fetchPos' = [fetchPos EXCEPT ![s] = @ + b]
  /\ pulls' = [pulls EXCEPT ![s] = @ - 1]
  /\ immediates' = [immediates EXCEPT ![s] = IF cIsConnected[s] THEN @ + 1 ELSE @]
  /\ UNCHANGED <<envVars, topics, hooks, prodVars, connVars, pullTimers, calls,
                 codec>>

ConsumeBatch(s, b) == Deliver(s, b, FALSE)

\* The client's periodic offset commit: the KafkaConsumer is configured
\* without 'enable.auto.commit', so the client commits, on its own timer, the
\* position after the last message it handed to the consume callback
AutoCommit(s) ==
  /\ consumer[s] = "ready"
  /\ brokerUp
  /\ committed[s] < fetchPos[s]
  /\ committed' = [committed EXCEPT ![s] = fetchPos[s]]
  /\ UNCHANGED <<envVars, topics, hooks, prodVars, connVars, loopVars, tasks,
                 calls, codec>>

\* setImmediate(consumeLoop) runs
NextPull(s) ==
  /\ immediates[s] > 0
  /\ immediates' = [immediates EXCEPT ![s] = @ - 1]
  /\ pulls' = [pulls EXCEPT ![s] = consumeLoop(s, cIsConnected[s])]
  /\ UNCHANGED <<envVars, topics, committed, hooks, prodVars, connVars, fetchPos,
                 pullTimers, tasks, calls, codec>>

\* A pull retry armed with setInterval: it fires and stays armed
RetryPullInterval(s) ==
  /\ pullTimers[s] > 0
  /\ pulls' = [pulls EXCEPT ![s] = consumeLoop(s, cIsConnected[s])]
  /\ UNCHANGED <<envVars, topics, committed, hooks, prodVars, connVars, fetchPos,
                 immediates, pullTimers, tasks, calls, codec>>

\* setTimeout(consumeLoop, 1000) fires
RetryPull(s) ==
  /\ pullTimers[s] > 0
  /\ pullTimers' = [pullTimers EXCEPT ![s] = @ - 1]
  /\ pulls' = [pulls EXCEPT ![s] = consumeLoop(s, cIsConnected[s])]
  /\ UNCHANGED <<envVars, topics, committed, hooks, prodVars, connVars, fetchPos,
                 immediates, tasks, calls, codec>>

(***************************************************************************)
(* The handlers after their first suspension.                              *)
(***************************************************************************)
\* A create that goes on to emit although its save rejected
SaveFailedEmits(i) ==
  /\ i \in DOMAIN tasks["order"]
  /\ tasks["order"][i].pc = "save"
  /\ LET t == tasks["order"][i]
     IN emit("order", i, [t EXCEPT !.data = orderCreatedEvent(t.data),
                                   !.error = "save failed"])
  /\ UNCHANGED <<envVars, committed, hooks, pIsConnected, pTimers, connVars,
                 loopVars, calls, codec>>

\* OrdersService.create: ordersRepository.save rejects; the error reaches
\* the catch of handleUserCreated, or the caller of create
SaveFailed(i) ==
  /\ i \in DOMAIN tasks["order"]
  /\ tasks["order"][i].pc = "save"
  /\ tasks' = [tasks EXCEPT !["order"][i] =
                 [@ EXCEPT !.pc = settle(tasks["order"][i].origin),
                           !.error = "save failed"]]
  /\ UNCHANGED <<envVars, topics, committed, hooks, prodVars, connVars, loopVars,
                 calls, codec>>

\* OrdersService.create: ordersRepository.save resolves; emit order.created
Saved(i) ==
  /\ i \in DOMAIN tasks["order"]
  /\ tasks["order"][i].pc = "save"
  /\ LET t == tasks["order"][i]
         savedOrder == save(t.data, t.off)
     IN /\ orders' = Append(orders, savedOrder)
        /\ emit("order", i, [t EXCEPT !.data = orderCreatedEvent(savedOrder),
                                      !.result = savedOrder])
  /\ UNCHANGED <<brokerUp, users, committed, hooks, pIsConnected, pTimers,
                 connVars, loopVars, calls, codec>>

\* A processPayment that throws on a failed payment instead of publishing it
PaidRaising(i, r) ==
  /\ i \in DOMAIN tasks["payment"]
  /\ tasks["payment"][i].pc = "delay"
  /\ r \in Draws
  /\ LET t == tasks["payment"][i]
         event == paymentCompletedEvent(t.data, r, t.off)
     IN IF Get(event, "status") = Str("failed")
        THEN /\ tasks' = [tasks EXCEPT !["payment"][i] =
                            [t EXCEPT !.pc = settle(t.origin), !.draw = r,
                                      !.error = "payment failed"]]
             /\ UNCHANGED <<topics, producer, pAwait, pOrphans>>
        ELSE emit("payment", i, [t EXCEPT !.data = event, !.draw = r])
  /\ UNCHANGED <<envVars, committed, hooks, pIsConnected, pTimers, connVars,
                 loopVars, calls, codec>>

\* PaymentsService.processPayment: the delay is over; draw the outcome and
\* emit payment.completed
Paid(i, r) ==
  /\ i \in DOMAIN tasks["payment"]
  /\ tasks["payment"][i].pc = "delay"
  /\ r \in Draws
  /\ LET t == tasks["payment"][i]
     IN emit("payment", i,
             LET event == paymentCompletedEvent(t.data, r, t.off)
             IN [t EXCEPT !.data = event, !.draw = r,
                          !.result = Obj([paymentId |-> Get(event, "paymentId"),
                                          status |-> Get(event, "status")])])
  /\ UNCHANGED <<envVars, committed, hooks, pIsConnected, pTimers, connVars,
                 loopVars, calls, codec>>

(***************************************************************************)
(* A service running: its producer, its consumer loop and its handlers,    *)
(* the broker coming and going.                                            *)
(***************************************************************************)
Next ==
  \/ BrokerDown
  \/ BrokerBack
  \/ \E s \in Svc : ProducerInit(s)
  \/ \E s \in Svc : ProducerRetry(s)
  \/ \E s \in Svc : ProducerConnected(s)
  \/ \E s \in Svc : \E by \in BagToSet(pOrphans[s]) : OrphanConnected(s, by)
  \/ \E s \in Svc : ConsumerInit(s)
  \/ \E s \in Svc : ConsumerRetry(s)
  \/ \E s \in Svc : ConsumerConnected(s)
  \/ \E s \in Svc : ConsumeError(s)
  \/ \E s \in Svc : \E b \in 0..BatchSize : ConsumeBatch(s, b)
  \/ \E s \in Svc : AutoCommit(s)
  \/ \E s \in Svc : NextPull(s)
  \/ \E s \in Svc : RetryPull(s)
  \/ \E i \in DOMAIN tasks["order"] : SaveFailed(i)
  \/ \E i \in DOMAIN tasks["order"] : Saved(i)
  \/ \E i \in DOMAIN tasks["payment"] : \E r \in Draws : Paid(i, r)

Spec == Init /\ [][Next]_vars

(***************************************************************************)
(* A service consuming well-formed messages from a broker that stays       *)
(* reachable, with the batch of every handler invocation recorded.  No     *)
(* connect or pull fails, so no retry timer is ever set, and every         *)
(* delivered position is committed by the loop itself.                     *)
(***************************************************************************)
ConsumeBatchRecorded(s, b) == Deliver(s, b, TRUE)

InitBatch ==
  /\ Constructed
  /\ brokerUp = TRUE
  /\ \E s \in Svc :
       /\ hooks = {s} \X {"producer", "consumer"}
       /\ topics \in {[t \in Topics |-> IF t = InTopic(s) THEN q ELSE <<>>] :
                        q \in BoundedSeq(EnvMsgs(s) \ {Unparseable}, MaxMsgs)}
  /\ codec = [pc |-> "off"]

NextBatch ==
  \/ \E s \in Svc : ProducerInit(s)
  \/ \E s \in Svc : ProducerConnected(s)
  \/ \E s \in Svc : \E by \in BagToSet(pOrphans[s]) : OrphanConnected(s, by)
  \/ \E s \in Svc : ConsumerInit(s)
  \/ \E s \in Svc : ConsumerConnected(s)
  \/ \E s \in Svc : \E b \in 0..BatchSize : ConsumeBatchRecorded(s, b)
  \/ \E s \in Svc : NextPull(s)
  \/ \E i \in DOMAIN tasks["order"] : SaveFailed(i)
  \/ \E i \in DOMAIN tasks["order"] : Saved(i)
  \/ \E i \in DOMAIN tasks["payment"] : \E r \in Draws : Paid(i, r)

SpecBatch == InitBatch /\ [][NextBatch]_vars

(***************************************************************************)
(* Both services running against a reachable broker: payment-service       *)
(* consumes the order.created events order-service emits for the           *)
(* user.created events on its topic.                                       *)
(***************************************************************************)
InitChain ==
  /\ Constructed
  /\ brokerUp = TRUE
  /\ hooks = Svc \X {"producer", "consumer"}
  /\ topics \in {[t \in Topics |-> IF t = "user.created" THEN q ELSE <<>>] :
                   q \in BoundedSeq({UserCreatedTraced}, MaxMsgs)}
  /\ codec = [pc |-> "off"]

SpecChain == InitChain /\ [][NextBatch]_vars

(***************************************************************************)
(* A service whose process dies and is started again.                      *)
(***************************************************************************)
\* The process of s dies and a new one is constructed: the fields of the
\* producer and the consumer have their initial values again, the hooks are
\* still to run, the pending timers and continuations are gone and so are
\* the handler invocations in flight ("lost"); the topics, the committed
\* position of the group and the tables stay.
Crash(s) ==
  /\ consumer[s] # "null"
  /\ hooks' = hooks \cup ({s} \X {"producer", "consumer"})
  /\ producer' = [producer EXCEPT ![s] = "null"]
  /\ pIsConnected' = [pIsConnected EXCEPT ![s] = FALSE]
  /\ pAwait' = [pAwait EXCEPT ![s] = -1]
  /\ pOrphans' = [pOrphans EXCEPT ![s] = EmptyBag]
  /\ pTimers' = [pTimers EXCEPT ![s] = 0]
  /\ consumer' = [consumer EXCEPT ![s] = "null"]
  /\ cIsConnected' = [cIsConnected EXCEPT ![s] = FALSE]
  /\ cTimers' = [cTimers EXCEPT ![s] = 0]
  /\ subscribed' = [subscribed EXCEPT ![s] = {}]
  /\ fetchPos' = [fetchPos EXCEPT ![s] = 0]
  /\ pulls' = [pulls EXCEPT ![s] = 0]
  /\ immediates' = [immediates EXCEPT ![s] = 0]
  /\ pullTimers' = [pullTimers EXCEPT ![s] = 0]
  /\ tasks' = [tasks EXCEPT ![s] =
                 [k \in DOMAIN @ |->
                    IF @[k].pc \in {"save", "delay", "connect"}
                    THEN [@[k] EXCEPT !.pc = "lost"] ELSE @[k]]]
  /\ UNCHANGED <<envVars, topics, committed, stopped, calls, codec>>

InitCrash ==
  /\ Constructed
  /\ brokerUp = TRUE
  /\ \E s \in Svc :
       /\ hooks = {s} \X {"producer", "consumer"}
       /\ topics \in {[t \in Topics |-> IF t = InTopic(s) THEN q ELSE <<>>] :
                        q \in BoundedSeq(EnvMsgs(s), MaxMsgs)}
  /\ codec = [pc |-> "off"]

NextCrash ==
  \/ \E s \in Svc : ProducerInit(s)
  \/ \E s \in Svc : ProducerConnected(s)
  \/ \E s \in Svc : \E by \in BagToSet(pOrphans[s]) : OrphanConnected(s, by)
  \/ \E s \in Svc : ConsumerInit(s)
  \/ \E s \in Svc : ConsumerConnected(s)
  \/ \E s \in Svc : \E b \in 0..BatchSize : ConsumeBatch(s, b)
  \/ \E s \in Svc : AutoCommit(s)
  \/ \E s \in Svc : NextPull(s)
  \/ \E i \in DOMAIN tasks["order"] : SaveFailed(i)
  \/ \E i \in DOMAIN tasks["order"] : Saved(i)
  \/ \E i \in DOMAIN tasks["payment"] : \E r \in Draws : Paid(i, r)
  \/ \E s \in Svc : Crash(s)

SpecCrash == InitCrash /\ [][NextCrash]_vars

(***************************************************************************)
(* A service that is shut down while it runs.                              *)
(***************************************************************************)
\* ConfluentKafkaConsumerService.onModuleDestroy: clear the flag and
\* disconnect the client held in this.consumer.  A connected client is
\* closed (and commits the position of what it delivered); the callback of a
\* connect in flight is still to come, and the disconnect may or may not
\* make it report an error ("aborting").
ConsumerDestroy(s) ==
  /\ <<s, "consumer">> \notin hooks
  /\ ~stopped[s]
  /\ stopped' = [stopped EXCEPT ![s] = TRUE]
  /\ cIsConnected' = [cIsConnected EXCEPT ![s] = FALSE]
  /\ \E c \in (CASE consumer[s] = "ready" -> {"closed"}
                  [] consumer[s] = "connecting" -> {"connecting", "aborting"}
                  [] OTHER -> {consumer[s]}) :
       consumer' = [consumer EXCEPT ![s] = c]
  /\ committed' = [committed EXCEPT ![s] =
                     IF consumer[s] = "ready" /\ brokerUp THEN fetchPos[s] ELSE @]
  /\ UNCHANGED <<envVars, topics, hooks, prodVars, cTimers, subscribed, loopVars,
                 tasks, calls, codec>>

NextShutdown ==
  \/ Next
  \/ \E s \in Svc : ConsumerDestroy(s)

SpecShutdown == Init /\ [][NextShutdown]_vars

(***************************************************************************)
(* Startup against an unreachable broker: the hooks, the retry timers and  *)
(* the pull loop of one service, with nothing to consume and nobody        *)
(* calling emit.  Timers fire and callbacks arrive (weak fairness); the    *)
(* broker comes and goes as it likes.                                      *)
(***************************************************************************)
InitStartup ==
  /\ Constructed
  /\ brokerUp = FALSE
  /\ hooks = Svc \X {"producer", "consumer"}
  /\ topics = [t \in Topics |-> <<>>]
  /\ codec = [pc |-> "off"]

NextStartup ==
  \/ BrokerDown
  \/ BrokerBack
  \/ \E s \in Svc : ProducerInit(s)
  \/ \E s \in Svc : ProducerRetry(s)
  \/ \E s \in Svc : ProducerConnected(s)
  \/ \E s \in Svc : ConsumerInit(s)
  \/ \E s \in Svc : ConsumerRetry(s)
  \/ \E s \in Svc : ConsumerConnected(s)
  \/ \E s \in Svc : ConsumeError(s)
  \/ \E s \in Svc : \E b \in 0..BatchSize : ConsumeBatch(s, b)
  \/ \E s \in Svc : NextPull(s)
  \/ \E s \in Svc : RetryPull(s)

FairStartup ==
  \A s \in Svc :
    /\ WF_vars(ProducerInit(s))
    /\ WF_vars(ProducerRetry(s))
    /\ WF_vars(ProducerConnected(s))
    /\ WF_vars(ConsumerInit(s))
    /\ WF_vars(ConsumerRetry(s))
    /\ WF_vars(ConsumerConnected(s))
    /\ WF_vars(ConsumeError(s))
    /\ WF_vars(\E b \in 0..BatchSize : ConsumeBatch(s, b))
    /\ WF_vars(NextPull(s))
    /\ WF_vars(RetryPull(s))

SpecStartup == InitStartup /\ [][NextStartup]_vars /\ FairStartup

(***************************************************************************)
(* The producer on its own: emit() called directly, as the HTTP path of    *)
(* OrdersService.create and a direct PaymentsService.processPayment do.    *)
(***************************************************************************)
\* What a direct call is made with: the order of the request body,
\* context.active() at the call (no span, or the span of the request), and
\* the Math.random() draw of the payment
WelcomeDto == Obj([userId |-> Str("u1"), items |-> WelcomeItems])
CartDto ==
  Obj([userId |-> Str("u2"),
       items |-> Arr(<<Obj([productId |-> Str("p1"), quantity |-> Num(2),
                            price |-> Num(5)])>>)])
RequestSpan ==
  SpanContext(Str("0af7651916cd43dd8448eb211c80319c"), Str("00f067aa0ba902b7"),
              Num(1))
CallInputs ==
  {[dto |-> WelcomeDto, active |-> NoContext, r |-> 101],
   [dto |-> CartDto, active |-> RequestSpan, r |-> 100]}

\* The service method that calls emit, from its start to the emit: the
\* event it has built and the headers { requestId, traceId, spanId }
callerEvent(s, dto, r, n) ==
  IF s = "order"
  THEN LET c == create(dto, Undefined, n)
       IN [data |-> orderCreatedEvent(save(c.order, n)), ctx |-> c.ctx,
           topic |-> "order.created"]
  ELSE LET c == processPayment(Fresh(<<"caller", n, "orderId">>),
                               Get(dto, "userId"),
                               Num(sumItems(Get(dto, "items").arr)), Undefined, n)
       IN [data |-> paymentCompletedEvent(c.payment, r, n), ctx |-> c.ctx,
           topic |-> "payment.completed"]

\* this.kafkaService.emit(topic, event, headers) of a direct call
EmitCall(s, dto, active, r) ==
  /\ <<s, "producer">> \in hooks \/ producer[s] # "null"   \* s is the service that runs
  /\ calls < MaxCalls
  /\ calls' = calls + 1
  /\ LET e == callerEvent(s, dto, r, calls + 1)
     IN emit(s, Len(tasks[s]) + 1,
             Task("caller", calls + 1, "emit", active, Undefined, e.data, e.ctx,
                  e.topic))
  /\ UNCHANGED <<envVars, committed, hooks, pIsConnected, pTimers, connVars,
                 loopVars, codec>>

InitEmit ==
  /\ Constructed
  /\ brokerUp \in BOOLEAN
  /\ \E s \in Svc : hooks = {<<s, "producer">>}
  /\ topics = [t \in Topics |-> <<>>]
  /\ codec = [pc |-> "off"]

NextEmit ==
  \/ BrokerDown
  \/ BrokerBack
  \/ \E s \in Svc : ProducerInit(s)
  \/ \E s \in Svc : ProducerRetry(s)
  \/ \E s \in Svc : ProducerConnected(s)
  \/ \E s \in Svc : \E by \in BagToSet(pOrphans[s]) : OrphanConnected(s, by)
  \/ \E s \in Svc, in \in CallInputs : EmitCall(s, in.dto, in.active, in.r)

SpecEmit == InitEmit /\ [][NextEmit]_vars

(***************************************************************************)
(* The producer of a service that is shut down.                            *)
(***************************************************************************)
\* ConfluentKafkaService.onModuleDestroy: a producer whose flag is set
\* disconnects the client it holds and clears the flag; any other producer
\* is left as it is.  stopped records that the hook has been called.
ProducerDestroy(s) ==
  /\ <<s, "producer">> \notin hooks
  /\ producer[s] # "null"
  /\ ~stopped[s]
  /\ stopped' = [stopped EXCEPT ![s] = TRUE]
  /\ IF pIsConnected[s]
     THEN /\ producer' = [producer EXCEPT ![s] =
                            IF @ = "ready" THEN "closed" ELSE @]
          /\ pIsConnected' = [pIsConnected EXCEPT ![s] = FALSE]
     ELSE UNCHANGED <<producer, pIsConnected>>
  /\ UNCHANGED <<envVars, topics, committed, hooks, pAwait, pOrphans, pTimers,
                 consumer, cIsConnected, cTimers, subscribed, loopVars, tasks,
                 calls, codec>>

NextProducerShutdown ==
  \/ NextEmit
  \/ \E s \in Svc : ProducerDestroy(s)

SpecProducerShutdown == InitEmit /\ [][NextProducerShutdown]_vars

(***************************************************************************)
(* UsersService.create and OrdersService.create called directly (by the    *)
(* HTTP layer): the local write, then the emit.                            *)
(***************************************************************************)
Creators == {"order", "user"}
NewUserDto ==
  Obj([email |-> Str("a@b.com"), name |-> Str("A"), password |-> Str("secret")])
CreateInputs(s) == IF s = "order" THEN {WelcomeDto, CartDto} ELSE {NewUserDto}

\* create(dto) up to the await of the repository's save
CreateCall(s, dto) ==
  /\ <<s, "producer">> \in hooks \/ producer[s] # "null"   \* s is the service that runs
  /\ calls < MaxCalls
  /\ calls' = calls + 1
  /\ LET n == calls + 1
         t == IF s = "order"
              THEN LET c == create(dto, Undefined, n)
                   IN Task("caller", n, "save", NoContext, Undefined, c.order,
                           c.ctx, "order.created")
              ELSE LET c == createUser(dto, Undefined, n)
                   IN Task("caller", n, "save", NoContext, Undefined, c.user,
                           c.ctx, "user.created")
     IN tasks' = [tasks EXCEPT ![s] = Append(@, t)]
  /\ UNCHANGED <<envVars, topics, committed, hooks, prodVars, connVars, loopVars,
                 codec>>

\* UsersService.create: usersRepository.save rejects; the caller gets the
\* error
UserSaveFailed(i) ==
  /\ i \in DOMAIN tasks["user"]
  /\ tasks["user"][i].pc = "save"
  /\ tasks' = [tasks EXCEPT !["user"][i] =
                 [@ EXCEPT !.pc = settle(tasks["user"][i].origin),
                           !.error = "save failed"]]
  /\ UNCHANGED <<envVars, topics, committed, hooks, prodVars, connVars, loopVars,
                 calls, codec>>

\* UsersService.create: usersRepository.save resolves; emit user.created
UserSaved(i) ==
  /\ i \in DOMAIN tasks["user"]
  /\ tasks["user"][i].pc = "save"
  /\ LET t == tasks["user"][i]
         savedUser == saveUser(t.data, t.off)
     IN /\ users' = Append(users, savedUser)
        /\ emit("user", i, [t EXCEPT !.data = userCreatedEvent(savedUser),
                                     !.result = savedUser])
  /\ UNCHANGED <<brokerUp, orders, committed, hooks, pIsConnected, pTimers,
                 connVars, loopVars, calls, codec>>

InitCreate ==
  /\ Constructed
  /\ brokerUp \in BOOLEAN
  /\ \E s \in Creators : hooks = {<<s, "producer">>}
  /\ topics = [t \in Topics |-> <<>>]
  /\ codec = [pc |-> "off"]

NextCreate ==
  \/ BrokerDown
  \/ BrokerBack
  \/ \E s \in Creators : ProducerInit(s)
  \/ \E s \in Creators : ProducerRetry(s)
  \/ \E s \in Creators : ProducerConnected(s)
  \/ \E s \in Creators : \E by \in BagToSet(pOrphans[s]) : OrphanConnected(s, by)
  \/ \E s \in Creators : \E dto \in CreateInputs(s) : CreateCall(s, dto)
  \/ \E i \in DOMAIN tasks["order"] : SaveFailed(i)
  \/ \E i \in DOMAIN tasks["order"] : Saved(i)
  \/ \E i \in DOMAIN tasks["user"] : UserSaveFailed(i)
  \/ \E i \in DOMAIN tasks["user"] : UserSaved(i)

SpecCreate == InitCreate /\ [][NextCreate]_vars

(***************************************************************************)
(* The codec on its own: a span context encoded by the producer side and   *)
(* decoded by the consumer side, and bodies of any shape decoded.          *)
(***************************************************************************)
\* Span contexts a span can have: valid ids, sampled or not
Contexts ==
  {SpanContext(Str(t), Str(sp), Num(f)) : t \in TraceIds, sp \in SpanIds, f \in {0, 1}}

\* Values of the fields of a `_trace` object
TraceFieldValues(k) ==
  CASE k = "traceId" -> {Str("deadbeefdeadbeefdeadbeefdeadbeef"), Num(7), Null}
    [] k = "spanId" -> {Str("b7ad6b7169203331"), Num(7)}
    [] OTHER -> {Str("0"), Str("1"), Num(0), Num(1)}

TraceFields == {"traceId", "spanId", "flags"}

\* Values of the `_trace` key: objects with any of the fields, and others
TraceValues ==
  {Obj(f) : f \in {g \in UNION {[D -> UNION {TraceFieldValues(k) : k \in TraceFields}] :
                                    D \in SUBSET TraceFields} :
                     \A k \in DOMAIN g : g[k] \in TraceFieldValues(k)}}
    \cup {Null, Num(0), Num(5), Str(""), Str("abc")}

\* Message bodies: an event with or without a `_trace` key, a JSON text of
\* another type, a text that is not JSON
WireTexts ==
  {JSONstringify(With(UserCreated("u1"), "_trace", v)) : v \in TraceValues}
    \cup {JSONstringify(UserCreated("u1")), JSONstringify(Null),
          JSONstringify(Num(5)), Garbage}

InitCodec ==
  /\ Constructed
  /\ brokerUp = TRUE
  /\ hooks = {}
  /\ topics = [t \in Topics |-> <<>>]
  /\ codec \in {[pc |-> "context", from |-> c] : c \in Contexts}
           \cup {[pc |-> "wire", from |-> NoContext, text |-> w] : w \in WireTexts}

\* ConfluentKafkaService.emit (order-service) for a producer span whose
\* context is codec.from: inject, embed as `_trace`, serialize
Encode ==
  /\ codec.pc = "context"
  /\ LET span == codec.from
         traceHeaders == injectContextFromSpan(span, Or(Undefined, EmptyObject))
     IN codec' = [pc |-> "wire", from |-> codec.from,
                  text |-> JSONstringify(messageWithTrace(UserCreated("u1"),
                                                          traceHeaders))]
  /\ UNCHANGED <<envVars, topics, committed, hooks, prodVars, connVars, loopVars,
                 tasks, calls>>

\* consumeMessages on the text, then startSpanFromHeaders in the handler
Decode ==
  /\ codec.pc = "wire"
  /\ LET out == extractTrace(codec.text)
     IN codec' = [pc |-> "decoded", from |-> codec.from, text |-> codec.text,
                  out |-> out,
                  parent |-> IF out = Threw THEN NoContext
                             ELSE parentSpanContext(out.headers),
                  span |-> IF out = Threw THEN NoContext
                           ELSE startSpanFromHeaders(out.headers, "order", 1)]
  /\ UNCHANGED <<envVars, topics, committed, hooks, prodVars, connVars, loopVars,
                 tasks, calls>>

NextCodec ==
  \/ Encode
  \/ Decode

SpecCodec == InitCodec /\ [][NextCodec]_vars

(***************************************************************************)
(* Properties.                                                             *)
(***************************************************************************)
Range(q) == {q[i] : i \in DOMAIN q}

\* The topic a service publishes to
OutTopic(s) == IF s = "order" THEN "order.created" ELSE "payment.completed"

\* Handler invocations for the message at offset off of the consumed topic
Dispatched(s, off) ==
  Cardinality({i \in DOMAIN tasks[s] :
                 tasks[s][i].origin = "consumer" /\ tasks[s][i].off = off})

\* The message at offset off parses
Parseable(s, off) == extractTrace(topics[InTopic(s)][off].value) # Threw

\* Pending continuations of the pull loop
LoopTokens(s) == pulls[s] + immediates[s] + pullTimers[s]

\* Messages on any topic published by the call or handler invocation t of s
Published(s, t) ==
  UNION {{<<tp, i>> : i \in {j \in DOMAIN topics[tp] :
                               topics[tp][j].cause = <<Who(s, t), t.off>>}} :
           tp \in Topics}

\* C1: a handler invocation that throws or rejects ends in the handler's
\* catch, never as an unhandled error; the loop keeps its one pending
\* continuation, and every parseable message delivered after the failed one
\* has its handler invocation.
C1_HandlerFailureIsolation ==
  \A s \in Svc :
    /\ \A i \in DOMAIN tasks[s] : tasks[s][i].pc # "unhandled"
    /\ \A k \in DOMAIN tasks[s] :
         (tasks[s][k].origin = "consumer" /\ tasks[s][k].pc = "failed") =>
           /\ cIsConnected[s] => LoopTokens(s) = 1
           /\ \A off \in (tasks[s][k].off + 1)..fetchPos[s] :
                Parseable(s, off) => Dispatched(s, off) = 1

\* A handler invocation failed and the message after it was dispatched and
\* handled.
C1_Witness ==
  \E s \in Svc :
    /\ Len(tasks[s]) = 2
    /\ tasks[s][1].pc = "failed"
    /\ tasks[s][1].off = 1
    /\ tasks[s][2].off = 2
    /\ tasks[s][2].pc = "done"
    /\ LoopTokens(s) = 1

Carried(m) ==
  {Get(Get(JSONparse(m.value), "_trace"), "traceId"),
   Get(m.headers, "x-trace-id"), Get(m.headers, "traceId")} \ {Undefined}

\* C3: every event a handler emits carries the trace id of the event that
\* triggered it.
C3_TraceIdThreaded ==
  \A s \in Svc :
    \A m \in Range(topics[OutTopic(s)]) :
      (m.cause[1] = s /\ m.cause[2] \in DOMAIN topics[InTopic(s)]) =>
        Carried(m) \cap Carried(topics[InTopic(s)][m.cause[2]]) # {}

\* C4: an emit that has completed put exactly one message on the topic it
\* was called with and none on another, and the body of the message without
\* `_trace` is the payload.
C4_EmitPublishesPayload ==
  \A s \in Svc :
    \A i \in DOMAIN tasks[s] :
      LET t == tasks[s][i]
      IN (t.origin = "caller" /\ t.pc = "done") =>
           /\ Cardinality(Published(s, t)) = 1
           /\ \A x \in Published(s, t) :
                /\ x[1] = t.topic
                /\ Delete(JSONparse(topics[x[1]][x[2]].value), "_trace") = t.data

\* Both producers have published: an order.created of a cart with a price
\* and a failed payment.completed, or the welcome order and a completed one.
C4_Witness ==
  \E s \in Svc :
    /\ Len(tasks[s]) = 2
    /\ \A i \in 1..2 : tasks[s][i].origin = "caller" /\ tasks[s][i].pc = "done"
    /\ tasks[s][1].data # tasks[s][2].data
    /\ Len(topics[OutTopic(s)]) = 2

\* C5: the message of a completed emit has a `_trace` whose traceId is the
\* traceId of the headers the caller passed.
C5_TraceIdOfCaller ==
  \A s \in Svc :
    \A i \in DOMAIN tasks[s] :
      LET t == tasks[s][i]
      IN (t.origin = "caller" /\ t.pc = "done") =>
           \A x \in Published(s, t) :
             Get(Get(JSONparse(topics[x[1]][x[2]].value), "_trace"), "traceId")
               = Get(t.ctx, "traceId")

\* C6: an emit called while the producer is not connected publishes nothing
\* in the call, and when its connect() ends with the broker unreachable it
\* throws 'Kafka producer not available' and publishes nothing.
C6_UnavailableNoPublish ==
  [][\A s \in Svc :
       /\ (Len(tasks'[s]) > Len(tasks[s]) /\ ~(pIsConnected[s] /\ producer[s] = "ready"))
            => topics' = topics
       /\ \A i \in DOMAIN tasks[s] :
            (/\ tasks[s][i].origin = "caller"
             /\ tasks[s][i].pc = "connect"
             /\ tasks'[s][i].pc # "connect"
             /\ ~brokerUp)
              => /\ tasks'[s][i].pc = "rejected"
                 /\ tasks'[s][i].error = "Kafka producer not available"
                 /\ topics' = topics]_vars

\* The producer never connected, the broker is down, the emit was rejected
\* and no topic holds a message.
C6_Witness ==
  /\ ~brokerUp
  /\ \E s \in Svc :
       /\ producer[s] = "failed"
       /\ ~pIsConnected[s]
       /\ \E i \in DOMAIN tasks[s] :
            /\ tasks[s][i].origin = "caller"
            /\ tasks[s][i].pc = "rejected"
            /\ tasks[s][i].error = "Kafka producer not available"
  /\ \A tp \in Topics : topics[tp] = <<>>

\* C7: the span context decoded from an encoded span context is that span
\* context: same traceId, same spanId, same flags.
C7_RoundTrip ==
  (codec.pc = "decoded" /\ codec.from # NoContext) =>
    /\ codec.out # Threw
    /\ codec.parent = codec.from

\* The `_trace` value is not an object with three string fields
Malformed(tr) ==
  \/ ~IsObj(tr)
  \/ \E k \in TraceFields : k \notin DOMAIN tr.obj \/ ~IsString(tr.obj[k])

\* C8: decoding an event whose `_trace` is absent or malformed does not
\* raise, and the handler's span is a new root that uses no inbound value.
C8_MalformedIsNotFound ==
  (/\ codec.pc = "decoded"
   /\ IsObj(JSONparse(codec.text))
   /\ Malformed(Get(JSONparse(codec.text), "_trace")))
    => /\ codec.out # Threw
       /\ codec.span.parentSpanId = Undefined
       /\ DOMAIN codec.span.traceId = {"gen"}

\* C9: the event handed to the handler has no `_trace` key, whatever the
\* value of that key in the body.
C9_TraceStripped ==
  (/\ codec.pc = "decoded"
   /\ codec.out # Threw
   /\ IsObj(JSONparse(codec.text))
   /\ "_trace" \in DOMAIN JSONparse(codec.text).obj)
    => "_trace" \notin DOMAIN codec.out.eventData.obj

\* C10: on order.created a message that does not parse gets no handler
\* invocation, the loop keeps its one pending continuation, and every
\* parseable message delivered after it is dispatched.
C10_MalformedSkipped ==
  \A off \in 1..fetchPos["payment"] :
    ~Parseable("payment", off) =>
      /\ Dispatched("payment", off) = 0
      /\ cIsConnected["payment"] => LoopTokens("payment") = 1
      /\ \A n \in (off + 1)..fetchPos["payment"] :
           Parseable("payment", n) => Dispatched("payment", n) = 1

\* A message that does not parse, then a valid one, delivered in one batch
\* or two: only the valid one has a handler invocation.
C10_Witness ==
  /\ topics["order.created"] = <<Unparseable, OrderCreatedChained>>
  /\ fetchPos["payment"] = 2
  /\ Dispatched("payment", 1) = 0
  /\ Dispatched("payment", 2) = 1
  /\ LoopTokens("payment") = 1

(***************************************************************************)
(* Acknowledgement of unparseable messages.                                *)
(***************************************************************************)
\* C11: a message whose body fails deserialization is still acknowledged:
\* once the consume callback has handled it, its position is committed, also
\* when it is the last message of the topic
C11_UnparseableAcknowledged ==
  \A s \in Svc : \A off \in 1..fetchPos[s] :
    ~Parseable(s, off) => committed[s] >= off

(***************************************************************************)
(* The welcome order.                                                      *)
(***************************************************************************)
\* The rows of the orders table saved by the handler invocation t
RowsOf(t) ==
  {k \in DOMAIN orders : Get(orders[k], "id") = Fresh(<<"order", t.off, "orderId">>)}

\* The userId, items and totalAmount of the welcome order of user u
IsWelcomeOrder(o, u) ==
  /\ Get(o, "userId") = u
  /\ Get(o, "items") = Arr(<<Obj([productId |-> Str("welcome-product"),
                                  quantity |-> Num(1), price |-> Num(0)])>>)
  /\ Get(o, "totalAmount") = Num(0)

\* The producer of s is connected
ProducerConnectedNow(s) == producer[s] = "ready" /\ pIsConnected[s]

\* C12: for every user.created event with userId u dispatched to the
\* order-service handler, when the write succeeds while the producer is
\* connected the emit succeeds, and a handler whose write and emit succeeded
\* has persisted exactly one order and published exactly one message, an
\* order.created with userId u, the one welcome item and totalAmount 0.
C12_WelcomeOrder ==
  /\ [](\A i \in DOMAIN tasks["order"] :
         LET t == tasks["order"][i]
         IN (t.origin = "consumer" /\ t.pc = "done") =>
              /\ Cardinality(RowsOf(t)) = 1
              /\ \A k \in RowsOf(t) : IsWelcomeOrder(orders[k], Get(t.event, "userId"))
              /\ Cardinality(Published("order", t)) = 1
              /\ \A x \in Published("order", t) :
                   /\ x[1] = "order.created"
                   /\ IsWelcomeOrder(JSONparse(topics[x[1]][x[2]].value),
                                     Get(t.event, "userId")))
  /\ [][\A i \in DOMAIN tasks["order"] :
          (/\ tasks["order"][i].origin = "consumer"
           /\ tasks["order"][i].pc = "save"
           /\ Len(orders') = Len(orders) + 1
           /\ ProducerConnectedNow("order"))
            => tasks'["order"][i].pc \in {"save", "done"}]_vars

\* The welcome order of user u1 is saved and published
C12_Witness ==
  \E i \in DOMAIN tasks["order"] :
    /\ tasks["order"][i].origin = "consumer"
    /\ tasks["order"][i].pc = "done"
    /\ Get(tasks["order"][i].event, "userId") = Str("u1")
    /\ Len(orders) = 1
    /\ Len(topics["order.created"]) = 1

(***************************************************************************)
(* The payment of an order.                                                *)
(***************************************************************************)
\* The parsed body of the published message x = <<topic, offset>>
BodyOf(x) == JSONparse(topics[x[1]][x[2]].value)

\* C13: for every order.created event dispatched to the payment handler, the
\* handler's only wait is its delay, which can always end; when it ends while
\* the producer is connected the handler publishes, whatever the outcome of
\* the payment, and ends without an error; a handler never publishes more
\* than one message, and the one message of a finished handler is a
\* payment.completed whose orderId and userId are the event's, whose amount
\* is the event's totalAmount and whose status is 'completed' or 'failed'.
C13_PaymentCompleted ==
  /\ [](\A i \in DOMAIN tasks["payment"] :
         LET t == tasks["payment"][i]
         IN t.origin = "consumer" =>
              /\ Cardinality(Published("payment", t)) <= 1
              /\ t.pc = "delay" => ENABLED (\E r \in Draws : Paid(i, r))
              /\ t.pc = "done" =>
                   /\ t.error = ""
                   /\ Cardinality(Published("payment", t)) = 1
                   /\ \A x \in Published("payment", t) :
                        /\ x[1] = "payment.completed"
                        /\ Get(BodyOf(x), "orderId") = Get(t.event, "orderId")
                        /\ Get(BodyOf(x), "userId") = Get(t.event, "userId")
                        /\ Get(BodyOf(x), "amount") = Get(t.event, "totalAmount")
                        /\ Get(BodyOf(x), "status") \in {Str("completed"), Str("failed")})
  /\ [][\A i \in DOMAIN tasks["payment"] :
          (/\ tasks["payment"][i].origin = "consumer"
           /\ tasks["payment"][i].pc = "delay"
           /\ tasks'["payment"][i].pc # "delay"
           /\ ProducerConnectedNow("payment"))
            => /\ tasks'["payment"][i].pc = "done"
               /\ Len(topics'["payment.completed"]) = Len(topics["payment.completed"]) + 1]_vars

\* A failed payment of a dispatched order.created is published and its
\* handler ended without an error
C13_Witness ==
  \E i \in DOMAIN tasks["payment"] :
    LET t == tasks["payment"][i]
    IN /\ t.origin = "consumer"
       /\ t.pc = "done"
       /\ t.error = ""
       /\ \E x \in Published("payment", t) : Get(BodyOf(x), "status") = Str("failed")

\* C14: the payment outcome is a function of the draw r: a processPayment
\* that returned has published status 'completed' exactly when r > 0.1 and
\* 'failed' exactly when r <= 0.1, and the status it returns is the status
\* in the published event.
C14_OutcomeOfDraw ==
  \A i \in DOMAIN tasks["payment"] :
    LET t == tasks["payment"][i]
    IN (t.origin = "consumer" /\ t.pc = "done") =>
         \A x \in Published("payment", t) :
           /\ Get(BodyOf(x), "status") = Str("completed") <=> t.draw > FailureThreshold
           /\ Get(BodyOf(x), "status") = Str("failed") <=> t.draw <= FailureThreshold
           /\ Get(t.result, "status") = Get(BodyOf(x), "status")
           /\ Get(t.result, "paymentId") = Get(BodyOf(x), "paymentId")

\* A payment whose draw is exactly 0.1 has returned and is published as failed
C14_Witness ==
  \E i \in DOMAIN tasks["payment"] :
    LET t == tasks["payment"][i]
    IN /\ t.origin = "consumer"
       /\ t.pc = "done"
       /\ t.draw = FailureThreshold
       /\ Get(t.result, "status") = Str("failed")
       /\ \E x \in Published("payment", t) : Get(BodyOf(x), "status") = Str("failed")

(***************************************************************************)
(* Connection attempts.                                                    *)
(***************************************************************************)
\* Connect attempts of the producer of s whose callback has not run yet
InFlightConnects(s) ==
  (IF pAwait[s] # -1 THEN 1 ELSE 0) + BagCardinality(pOrphans[s])

\* C15: for each producer instance there is at most one in-flight connect
\* attempt at any time, whoever calls connect() (the startup hook, the retry
\* timer, or an emit() on a disconnected producer)
C15_SingleConnectAttempt == \A s \in Svc : InFlightConnects(s) <= 1

(***************************************************************************)
(* The life cycle of a consumer.                                           *)
(***************************************************************************)
\* C16: each consumer follows the order connect -> subscribe -> consume: a
\* pull is pending, or a message was delivered, only on a client whose
\* connect succeeded and which has subscribed; order-service subscribes to
\* user.created only, payment-service to order.created only, nobody to
\* payment.completed.
C16_ConnectSubscribeConsume ==
  /\ \A s \in Svc :
       (LoopTokens(s) > 0 \/ fetchPos[s] > 0) =>
         /\ consumer[s] = "ready"
         /\ Cardinality(subscribed[s]) = 1
  /\ subscribed["order"] \subseteq {"user.created"}
  /\ subscribed["payment"] \subseteq {"order.created"}

\* The payment-service consumer pulls again after a delivered message
C16_Witness ==
  /\ pulls["payment"] = 1
  /\ fetchPos["payment"] = 1
  /\ subscribed["payment"] = {"order.created"}

\* The consume callback of s reports an error in this step
ConsumeErrorStep(s) ==
  /\ pulls'[s] = pulls[s] - 1
  /\ fetchPos'[s] = fetchPos[s]
  /\ immediates'[s] = immediates[s]
  /\ tasks'[s] = tasks[s]

\* C17: when a broker disconnect is detected while the consumer is
\* consuming, the consumer goes back to connecting: it starts, or schedules,
\* a new connectAndSubscribe that re-establishes the session and
\* re-subscribes.
C17_ReconnectOnDisconnect ==
  [][\A s \in Svc :
       (cIsConnected[s] /\ consumer[s] = "ready" /\ ConsumeErrorStep(s)) =>
         \/ consumer'[s] = "connecting"
         \/ cTimers'[s] > cTimers[s]]_vars

\* C18: shutdown is terminal for the consumer loop: once onModuleDestroy has
\* been called, from any state, the consumer never again issues a pull,
\* never dispatches a handler, never starts a new connection and never sets
\* its connected flag back to true.
C18_ShutdownTerminal ==
  [][\A s \in Svc :
       stopped[s] =>
         /\ pulls'[s] <= pulls[s]
         /\ Len(tasks'[s]) = Len(tasks[s])
         /\ consumer'[s] = "connecting" => consumer[s] = "connecting"
         /\ cIsConnected'[s] => cIsConnected[s]]_vars

(***************************************************************************)
(* Retry of the connection.                                                *)
(***************************************************************************)
\* The consumer of s is consuming: connected, subscribed, one pull pending
\* or scheduled
Consuming(s) ==
  /\ cIsConnected[s]
  /\ consumer[s] = "ready"
  /\ subscribed[s] # {}
  /\ LoopTokens(s) = 1

\* C19: connectivity errors are retried indefinitely and are never fatal:
\* with the broker unreachable at startup, every failed connect of the
\* producer or of the consumer leaves a retry pending, and if the broker
\* becomes and stays reachable, then, timers and callbacks being scheduled
\* fairly, the producer is eventually connected and the consumer eventually
\* consuming, for good, without any emit call.
C19_RetriedUntilConnected ==
  /\ [](\A s \in Svc :
         /\ producer[s] = "failed" => pTimers[s] > 0 /\ pAwait[s] = -1
         /\ consumer[s] = "failed" => cTimers[s] > 0)
  /\ \A s \in Svc :
       <>[]brokerUp => <>[](ProducerConnectedNow(s) /\ Consuming(s))

\* The broker is unreachable, the startup hooks of a service have returned,
\* both connects have failed and both retry timers are pending
C19_Witness ==
  \E s \in Svc :
    /\ ~brokerUp
    /\ hooks \cap ({s} \X {"producer", "consumer"}) = {}
    /\ producer[s] = "failed" /\ pTimers[s] = 1
    /\ consumer[s] = "failed" /\ cTimers[s] = 1

(***************************************************************************)
(* The local write and the publish.                                        *)
(***************************************************************************)
\* The table create of s writes to, and the rows the call t wrote
Table(s) == IF s = "order" THEN orders ELSE users
Written(s, t) ==
  {k \in DOMAIN Table(s) :
     Get(Table(s)[k], "id") =
       Fresh(<<s, t.off, IF s = "order" THEN "orderId" ELSE "userId">>)}

\* C20: in UsersService.create and OrdersService.create, when the save has
\* succeeded and the emit fails because the producer is unavailable, the
\* written record stays persisted and the caller of create gets the publish
\* failure; emit is never called for a record whose save did not succeed;
\* no row is ever removed or changed.
C20_WriteKeptPublishFailureSurfaced ==
  /\ [](\A s \in Creators : \A i \in DOMAIN tasks[s] :
         LET t == tasks[s][i]
         IN t.origin = "caller" =>
              /\ t.error \in {"Kafka producer not available", "Producer not connected"} =>
                   /\ t.pc = "rejected"
                   /\ Cardinality(Written(s, t)) = 1
                   /\ Published(s, t) = {}
              /\ (t.pc = "save" \/ t.error = "save failed") =>
                   /\ Written(s, t) = {}
                   /\ Published(s, t) = {}
                   /\ t.pc \in {"save", "rejected"}
              /\ t.pc \in {"connect", "done"} =>
                   /\ Cardinality(Written(s, t)) = 1
                   /\ t.error = "")
  /\ [][\A s \in Creators :
          /\ Len(Table(s)') >= Len(Table(s))
          /\ SubSeq(Table(s)', 1, Len(Table(s))) = Table(s)]_vars

\* A create whose save succeeded and whose emit failed: the caller got the
\* error, the row is in the table, nothing is published
C20_Witness ==
  \E s \in Creators : \E i \in DOMAIN tasks[s] :
    /\ tasks[s][i].origin = "caller"
    /\ tasks[s][i].pc = "rejected"
    /\ tasks[s][i].error = "Kafka producer not available"
    /\ Cardinality(Written(s, tasks[s][i])) = 1
    /\ \A tp \in Topics : topics[tp] = <<>>

(***************************************************************************)
(* The pull loop and its handlers.                                         *)
(***************************************************************************)
\* The handler invocation t has not completed
Pending(t) == t.pc \in {"save", "delay", "connect"}

SameBatch(s, i, j) ==
  /\ tasks[s][i].origin = "consumer" /\ tasks[s][j].origin = "consumer"
  /\ tasks[s][i].batch > 0
  /\ tasks[s][i].batch = tasks[s][j].batch

\* C22: messages of a batch are dispatched to the handler in arrival order
\* (the handler invocations of a service are in the order of their offsets);
\* the order of completion is not tied to it (see the witness).
C22_DispatchInArrivalOrder ==
  \A s \in Svc : \A i, j \in DOMAIN tasks[s] :
    (i < j /\ tasks[s][i].origin = "consumer" /\ tasks[s][j].origin = "consumer") =>
      tasks[s][i].off < tasks[s][j].off

\* Two messages pulled in one batch: the side effect of the second has
\* completed, the one of the first has not
C22_Witness ==
  \E s \in Svc : \E i, j \in DOMAIN tasks[s] :
    /\ i < j
    /\ SameBatch(s, i, j)
    /\ tasks[s][i].pc \in {"save", "delay"}
    /\ tasks[s][j].pc = "done"

(***************************************************************************)
(* Committed messages.                                                     *)
(***************************************************************************)
\* The handler invocations of s that failed or were lost with their process
Abandoned(s) ==
  {k \in DOMAIN tasks[s] :
     tasks[s][k].origin = "consumer" /\ tasks[s][k].pc \in {"failed", "lost"}}

C24_PullErrorRetriesOnce ==
  [][\A s \in Svc :
       ConsumeErrorStep(s) =>
         /\ consumer'[s] = consumer[s]
         /\ subscribed'[s] = subscribed[s]
         /\ cTimers'[s] = cTimers[s]
         /\ pullTimers'[s] = pullTimers[s] + (IF stopped[s] THEN 0 ELSE 1)]_vars

(***************************************************************************)
(* Span ids and request ids across a hop.                                  *)
(***************************************************************************)
\* The span ids a message carries, and the parent span ids: in `_trace` of
\* its body or in a header
SpanIdsOf(m) ==
  {Get(Get(JSONparse(m.value), "_trace"), "spanId"),
   Get(m.headers, "x-span-id"), Get(m.headers, "spanId")} \ {Undefined}
ParentSpanIdsOf(m) ==
  {Get(Get(JSONparse(m.value), "_trace"), "parentSpanId"),
   Get(m.headers, "x-parent-span-id"), Get(m.headers, "parentSpanId")} \ {Undefined}

\* The messages a handler of s emitted, each with the offset of the inbound
\* message that triggered the handler
Reactions(s) ==
  {<<m, m.cause[2]>> : m \in {x \in Range(topics[OutTopic(s)]) :
                                x.cause[1] = s /\ x.cause[2] \in DOMAIN topics[InTopic(s)]}}

\* C25: every event a handler emits in reaction to an inbound event carries
\* a span id, none of the span ids it carries is a span id of the inbound
\* event, and it carries no parent span id.
C25_SpanIdReplaced ==
  \A s \in Svc : \A r \in Reactions(s) :
    /\ SpanIdsOf(r[1]) # {}
    /\ SpanIdsOf(r[1]) \cap SpanIdsOf(topics[InTopic(s)][r[2]]) = {}
    /\ ParentSpanIdsOf(r[1]) = {}

\* A handler has completed and its event is on the topic; the event that
\* triggered it carries a span id
C25_Witness ==
  \E s \in Svc : \E r \in Reactions(s) :
    /\ SpanIdsOf(topics[InTopic(s)][r[2]]) # {}
    /\ tasks[s][1].pc = "done"

\* The handler invocation of p whose emit put the message m on its topic
Emitter(m) ==
  {t \in Range(tasks[m.cause[1]]) : t.origin = "consumer" /\ t.off = m.cause[2]}

\* C26: the handler of an event that was emitted with a request id uses that
\* request id as its correlation id, which is the request id it passes to
\* its own emit.
C26_RequestIdCarried ==
  \A s \in Svc : \A t \in Range(tasks[s]) :
    (t.origin = "consumer" /\ topics[InTopic(s)][t.off].cause[1] \in Svc) =>
      \A e \in Emitter(topics[InTopic(s)][t.off]) :
        Get(e.ctx, "requestId") # Undefined =>
          Get(t.ctx, "requestId") = Get(e.ctx, "requestId")

(***************************************************************************)
(* The producer's flag, its client and its timers.                         *)
(***************************************************************************)
\* C27: whenever the connected flag of a producer is true, the client held
\* in this.producer is one whose own connect succeeded; and the flag is not
\* false while the held client is connected (no disconnect is ever
\* requested here).
C27_FlagMatchesClient ==
  \A s \in Svc : pIsConnected[s] <=> producer[s] = "ready"

\* C28: reconnect timers do not accumulate: each producer and each consumer
\* has at most one reconnect retry timer pending at any time.
C28_OneReconnectTimer ==
  \A s \in Svc : pTimers[s] <= 1 /\ cTimers[s] <= 1

(***************************************************************************)
(* One pull loop per consumer.                                             *)
(***************************************************************************)
\* C29: each consumer runs at most one pull loop: at any time at most one
\* pull is outstanding, or one continuation of the loop (the next pull or a
\* pull retry) is scheduled, and never both.
C29_OnePullLoop == \A s \in Svc : LoopTokens(s) <= 1

\* A batch was delivered, then a pull reported an error, and the retry of
\* that pull is the one pending continuation of the loop
C29_Witness ==
  \E s \in Svc :
    /\ consumer[s] = "ready"
    /\ fetchPos[s] > 0
    /\ pullTimers[s] = 1
    /\ pulls[s] = 0 /\ immediates[s] = 0

(***************************************************************************)
(* Shutdown of the producer.                                               *)
(***************************************************************************)
\* C30: once onModuleDestroy of the producer has run, the producer starts no
\* further connection attempt, does not set its flag again and publishes
\* nothing, whether a retry timer was pending at shutdown or emit is called
\* after it.
C30_ProducerShutdownTerminal ==
  [][\A s \in Svc :
       stopped[s] =>
         /\ InFlightConnects(s)' <= InFlightConnects(s)
         /\ pIsConnected'[s] => pIsConnected[s]
         /\ topics'[OutTopic(s)] = topics[OutTopic(s)]]_vars

====
